---- MODULE Spec2Model ----
(***************************************************************************)
(* Model of the Qualtrics utility application: the YAML editor variants    *)
(* (edit_1.YAMLEditor, edit_linenum.YAMLEditor, main1.EditorWindow), the   *)
(* launcher window of main1 and qualtrics_util.check_connection.           *)
(*                                                                         *)
(* A text is a sequence of lines.  A line is a record                      *)
(*   [kind, ind, key, val, eol, gap]                                       *)
(*   kind  "blank"    a line holding only `ind` spaces                     *)
(*         "comment"  a full-line comment `# eol` starting at column ind   *)
(*         "map"      `key: val` at column ind, val a sequence of words    *)
(*                    (<<>> for `key:`), eol an end-of-line comment or ""  *)
(*         "seq"      `- val`, the dash at column ind, the content `gap`   *)
(*                    columns right of the dash                            *)
(*         "bad"      `key: [unclosed`, a flow sequence that never closes  *)
(*         "scalar"   a plain scalar at the root of a document             *)
(*         "docend"   the document end marker `...`                        *)
(* Every line ends with a line break.  The column of an end-of-line        *)
(* comment within its line is not represented.  Blank lines occur only in  *)
(* whitespace-only texts.  yaml.load and yaml.dump are modelled on this    *)
(* fragment of YAML: block mappings with plain scalar or empty values,     *)
(* block sequences of plain scalars (also at the column of their key),     *)
(* plain scalars continued on deeper lines, comments, duplicate keys, an   *)
(* unclosed flow sequence and a scalar that resolves to an invalid date.   *)
(***************************************************************************)
EXTENDS Integers, Sequences, FiniteSets, TLC

\* ------------------------------------------------------------------ bounds
MaxLen == 3        \* lines of a text the format harness draws
MaxWindows == 2    \* editor windows the launcher opens
MaxOps == 4        \* user operations in one session

\* ------------------------------------------------- the line alphabet, texts
DateTok == "2001-02-30"

Ln(k, i, ky, v, e, g) ==
    [kind |-> k, ind |-> i, key |-> ky, val |-> v, eol |-> e, gap |-> g]

BlankLn(i) == Ln("blank", i, "", <<>>, "", 0)
CommentLn(i, c) == Ln("comment", i, "", <<>>, c, 0)
MapLn(i, k, v, e) == Ln("map", i, k, v, e, 0)
SeqLn(i, v, g) == Ln("seq", i, "", v, "", g)
BadLn == Ln("bad", 0, "key", <<"[unclosed">>, "", 0)
ScalarLn(v) == Ln("scalar", 0, "", v, "", 0)
DocEndLn == Ln("docend", 0, "", <<>>, "", 0)

Indents == {0, 2, 3}

\* the lines a user types: entries at several indentations, comments,
\* a line with a syntax error and a line whose scalar is an invalid date
Alphabet ==
    {MapLn(i, k, v, "") : i \in Indents, k \in {"a", "c"}, v \in {<<>>, <<"1">>}}
    \cup {MapLn(0, "a", <<"1">>, "c1"), MapLn(0, "c", <<DateTok>>, "")}
    \cup {SeqLn(i, <<"1">>, 2) : i \in Indents}
    \cup {CommentLn(0, "c2"), CommentLn(3, "c3"), BadLn}

RECURSIVE SeqsUpTo(_, _)
SeqsUpTo(S, n) ==
    IF n = 0 THEN {<<>>}
    ELSE LET shorter == SeqsUpTo(S, n - 1)
         IN  shorter \cup {Append(t, x) : t \in {u \in shorter : Len(u) = n - 1}, x \in S}

\* whitespace-only texts and texts over the alphabet
Texts == SeqsUpTo({BlankLn(0), BlankLn(3)}, MaxLen) \cup SeqsUpTo(Alphabet, MaxLen)

\* ---------------------------------------------------------------- str.strip
\* `not current_text.strip()`: the text is empty or holds only whitespace
StripIsEmpty(t) == \A i \in 1..Len(t) : t[i].kind = "blank"

\* ------------------------------------------- YAML().load (ruamel round trip)
\* The parser walks the lines with a stack of open block collections.
\*   frame  [kind, ind, owner, indentless]: a block mapping or sequence whose
\*          entries stand at column ind; owner is the entry holding it (0: root)
\*   entry  [kind, parent, key, val, eol, gap, post]: post are the comment
\*          lines that follow the entry, kept with their columns
Frame(k, i, o, il) == [kind |-> k, ind |-> i, owner |-> o, indentless |-> il]

Entry(l, p) ==
    [kind |-> l.kind, parent |-> p, key |-> l.key, val |-> l.val,
     eol |-> l.eol, gap |-> l.gap, post |-> <<>>]

ParseInit ==
    [err |-> FALSE, stack |-> <<>>, pend |-> 0, cont |-> FALSE,
     ents |-> <<>>, pre |-> <<>>]

Top(stack) == stack[Len(stack)]

\* leave the collections indented deeper than column i; a mapping key at the
\* column of an indentless sequence ends that sequence
RECURSIVE Unwind(_, _, _)
Unwind(stack, i, isKey) ==
    IF stack = <<>> THEN stack
    ELSE IF \/ Top(stack).ind > i
            \/ isKey /\ Top(stack).kind = "seq" /\ Top(stack).indentless
                     /\ Top(stack).ind = i
         THEN Unwind(SubSeq(stack, 1, Len(stack) - 1), i, isKey)
         ELSE stack

AddEntry(st, stack, l) ==
    LET owner == IF stack = <<>> THEN 0 ELSE Top(stack).owner
        ents == Append(st.ents, Entry(l, owner))
    IN  [st EXCEPT !.stack = stack, !.ents = ents,
                   !.pend = IF l.kind = "map" /\ l.val = <<>> THEN Len(ents) ELSE 0,
                   !.cont = (l.val # <<>> /\ l.eol = "")]

ParseError(st) == [st EXCEPT !.err = TRUE]

\* a full-line comment goes to the entry before it (to the document when
\* there is none) and ends a plain scalar
FeedComment(st, l) ==
    IF st.ents = <<>>
    THEN [st EXCEPT !.pre = Append(@, l), !.cont = FALSE]
    ELSE [st EXCEPT !.ents[Len(st.ents)].post = Append(@, l), !.cont = FALSE]

\* `key: val` at column l.ind
FeedMap(st, l) ==
    LET stack == Unwind(st.stack, l.ind, TRUE)
        kept == Len(stack) = Len(st.stack)
    IN  IF stack = <<>>
        THEN IF st.ents = <<>>
             THEN AddEntry(st, <<Frame("map", l.ind, 0, FALSE)>>, l)
             ELSE ParseError(st)
        ELSE IF Top(stack).ind = l.ind
             THEN IF Top(stack).kind = "map" THEN AddEntry(st, stack, l)
                  ELSE ParseError(st)
             ELSE IF st.pend # 0 /\ kept
                  THEN AddEntry(st, Append(stack, Frame("map", l.ind, st.pend, FALSE)), l)
                  ELSE ParseError(st)

\* `- val`, the dash at column l.ind; indented deeper than the block of a
\* plain scalar that ended the line before, it continues that scalar
FeedSeq(st, l) ==
    IF st.cont /\ l.ind > Top(st.stack).ind
    THEN [st EXCEPT !.ents[Len(st.ents)].val = @ \o <<"-">> \o l.val]
    ELSE LET stack == Unwind(st.stack, l.ind, FALSE)
             kept == Len(stack) = Len(st.stack)
         IN  IF stack = <<>>
             THEN IF st.ents = <<>>
                  THEN AddEntry(st, <<Frame("seq", l.ind, 0, FALSE)>>, l)
                  ELSE ParseError(st)
             ELSE IF Top(stack).ind = l.ind /\ Top(stack).kind = "seq"
                  THEN AddEntry(st, stack, l)
                  ELSE IF st.pend # 0 /\ kept
                       THEN AddEntry(st, Append(stack,
                                Frame("seq", l.ind, st.pend, Top(stack).ind = l.ind)), l)
                       ELSE ParseError(st)

Feed(st, l) ==
    IF st.err THEN st
    ELSE CASE l.kind = "blank" -> st   \* only whitespace-only texts hold blank lines
           [] l.kind = "comment" -> FeedComment(st, l)
           [] l.kind = "map" -> FeedMap(st, l)
           [] l.kind = "seq" -> FeedSeq(st, l)
           [] OTHER -> ParseError(st)

RECURSIVE Compose(_, _, _)
Compose(t, i, st) ==
    IF i > Len(t) THEN st ELSE Compose(t, i + 1, Feed(st, t[i]))

\* --- construction of the composed document
\* An entry's subtree is the entry and the entries after it that descend
\* from it.  The constructor builds a value before it checks its key against
\* the keys already in the mapping.
RECURSIVE Descends(_, _, _)
Descends(ents, k, j) ==
    /\ k # 0
    /\ \/ ents[k].parent = j
       \/ Descends(ents, ents[k].parent, j)

SubtreeEnd(ents, j) ==
    CHOOSE k \in j..Len(ents) :
        /\ \A m \in (j + 1)..k : Descends(ents, m, j)
        /\ k = Len(ents) \/ ~Descends(ents, k + 1, j)

DuplicateKey(ents, j) ==
    /\ ents[j].kind = "map"
    /\ \E i \in 1..(j - 1) :
          /\ ents[i].kind = "map"
          /\ ents[i].parent = ents[j].parent
          /\ ents[i].key = ents[j].key

\* datetime.date(2001, 2, 30) raises ValueError
InvalidDate(ents, j) == ents[j].val = <<DateTok>>

\* the first fault of the construction, in the order the constructor works
ConstructFault(ents) ==
    LET n == Len(ents)
        dups == {SubtreeEnd(ents, j) : j \in {i \in 1..n : DuplicateKey(ents, i)}}
        dates == {j \in 1..n : InvalidDate(ents, j)}
    IN  IF \E p \in dates : \A q \in dups : q >= p THEN "ValueError"
        ELSE IF dups # {} THEN "YAMLError"
        ELSE "none"

\* a document that is one plain scalar, with or without the end marker
IsScalarDocument(t) ==
    /\ Len(t) \in {1, 2}
    /\ t[1].kind = "scalar"
    /\ Len(t) = 2 => t[2] = DocEndLn

\* the loaded document: None, a root scalar, or a block collection with the
\* comments before its first entry (pre) and its entries in order
NoneDoc == [root |-> "none", val |-> <<>>, pre |-> <<>>, ents |-> <<>>]
ScalarDoc(v) == [root |-> "scalar", val |-> v, pre |-> <<>>, ents |-> <<>>]
BlockDoc(pre, ents) == [root |-> "block", val |-> <<>>, pre |-> pre, ents |-> ents]

Ok(doc) == [tag |-> "ok", doc |-> doc]
Raised(exc) == [tag |-> exc, doc |-> NoneDoc]

\* YAML().load(text): the document, or the exception raised.  A text with
\* no node (comments only) loads as None, its comments gone.
Load(t) ==
    IF IsScalarDocument(t)
    THEN IF t[1].val = <<"null">> THEN Ok(NoneDoc)
         ELSE IF t[1].val = <<DateTok>> THEN Raised("ValueError")
         ELSE Ok(ScalarDoc(t[1].val))
    ELSE IF \E i \in 1..Len(t) : t[i].kind \notin {"blank", "comment", "map", "seq"}
    THEN Raised("YAMLError")
    ELSE LET st == Compose(t, 1, ParseInit)
         IN  IF st.err THEN Raised("YAMLError")
             ELSE IF st.ents = <<>> THEN Ok(NoneDoc)
             ELSE IF ConstructFault(st.ents) # "none"
                  THEN Raised(ConstructFault(st.ents))
                  ELSE Ok(BlockDoc(st.pre, st.ents))

\* ------------------------------------------------------------- YAML().dump
\* yaml.indent(mapping=2, sequence=4, offset=2)
Options(m, s, o) == [mapping |-> m, sequence |-> s, offset |-> o]

\* the column of an entry: a key stands `mapping` columns right of the key
\* that holds its mapping; the content of a sequence item stands `sequence`
\* columns right of the key that holds the sequence (of column 0 at the
\* root), its dash `sequence - offset` columns left of the content
RECURSIVE Column(_, _, _)
Column(ents, i, opts) ==
    LET base == IF ents[i].parent = 0 THEN 0 ELSE Column(ents, ents[i].parent, opts)
    IN  IF ents[i].kind = "map"
        THEN IF ents[i].parent = 0 THEN 0 ELSE base + opts.mapping
        ELSE base + opts.sequence - (opts.sequence - opts.offset)

EmitEntry(ents, i, opts) ==
    <<Ln(ents[i].kind, Column(ents, i, opts), ents[i].key, ents[i].val, ents[i].eol,
         IF ents[i].kind = "seq" THEN opts.sequence - opts.offset ELSE 0)>>
    \o ents[i].post

\* (mutation) the entries are written last first
RECURSIVE EmitBackwards(_, _, _)
EmitBackwards(ents, i, opts) ==
    IF i > Len(ents) THEN <<>>
    ELSE EmitBackwards(ents, i + 1, opts) \o EmitEntry(ents, i, opts)

RECURSIVE EmitFrom(_, _, _)
EmitFrom(ents, i, opts) ==
    IF i > Len(ents) THEN <<>>
    ELSE EmitEntry(ents, i, opts) \o EmitFrom(ents, i + 1, opts)

\* (mutation) None at the root is written as nothing
DumpNoneAsNothing(doc, opts) ==
    CASE doc.root = "none" -> <<>>
      [] doc.root = "scalar" -> <<ScalarLn(doc.val), DocEndLn>>
      [] OTHER -> doc.pre \o EmitFrom(doc.ents, 1, opts)

\* a scalar at the root is followed by a document end marker, and None at
\* the root is written as `null`
Dump(doc, opts) ==
    CASE doc.root = "none" -> <<ScalarLn(<<"null">>), DocEndLn>>
      [] doc.root = "scalar" -> <<ScalarLn(doc.val), DocEndLn>>
      [] OTHER -> doc.pre \o EmitFrom(doc.ents, 1, opts)

\* ------------------------------------------------------------- format_yaml
\* what one call of format_yaml does to the buffer it is given:
\*   outcome  "EmptyInput", "Formatted", "ParseFailed", or "Uncaught" when an
\*            exception leaves format_yaml (only YAMLError is caught)
\*   text     the buffer after the call
\*   notice   the message box shown: "information", "critical" or "none"
FormatResult(o, t, n) == [outcome |-> o, text |-> t, notice |-> n]

format_yaml_edit_1(t) ==
    IF StripIsEmpty(t) THEN FormatResult("EmptyInput", t, "information")
    ELSE LET data == Load(t)
         IN  CASE data.tag = "ok" ->
                    FormatResult("Formatted", Dump(data.doc, Options(2, 4, 2)), "none")
               [] data.tag = "YAMLError" -> FormatResult("ParseFailed", t, "critical")
               [] OTHER -> FormatResult("Uncaught", t, "none")

\* (mutation) this variant indents mappings by 4
format_yaml_indent_4(t) ==
    IF StripIsEmpty(t) THEN FormatResult("EmptyInput", t, "information")
    ELSE LET data == Load(t)
         IN  CASE data.tag = "ok" ->
                    FormatResult("Formatted", Dump(data.doc, Options(4, 4, 2)), "none")
               [] data.tag = "YAMLError" -> FormatResult("ParseFailed", t, "critical")
               [] OTHER -> FormatResult("Uncaught", t, "none")

format_yaml_edit_linenum(t) ==
    IF StripIsEmpty(t) THEN FormatResult("EmptyInput", t, "information")
    ELSE LET data == Load(t)
         IN  CASE data.tag = "ok" ->
                    FormatResult("Formatted", Dump(data.doc, Options(2, 4, 2)), "none")
               [] data.tag = "YAMLError" -> FormatResult("ParseFailed", t, "critical")
               [] OTHER -> FormatResult("Uncaught", t, "none")

\* main1 returns on an empty buffer without a message box
format_yaml_main1(t) ==
    IF StripIsEmpty(t) THEN FormatResult("EmptyInput", t, "none")
    ELSE LET data == Load(t)
         IN  CASE data.tag = "ok" ->
                    FormatResult("Formatted", Dump(data.doc, Options(2, 4, 2)), "none")
               [] data.tag = "YAMLError" -> FormatResult("ParseFailed", t, "critical")
               [] OTHER -> FormatResult("Uncaught", t, "none")

format_yaml(variant, t) ==
    CASE variant = "edit_1" -> format_yaml_edit_1(t)
      [] variant = "edit_linenum" -> format_yaml_edit_linenum(t)
      [] OTHER -> format_yaml_main1(t)

\* --------------------------------------------------------------- the disk
\* a path names nothing ("absent"), a regular file with its text, a
\* directory, or a file that cannot be opened ("noperm")
Paths == {"t.yaml", "p.yaml", "notes.yaml"}
Absent == [kind |-> "absent", content |-> <<>>]
File(t) == [kind |-> "file", content |-> t]
Directory == [kind |-> "dir", content |-> <<>>]
NoPermission == [kind |-> "noperm", content |-> <<>>]

\* os.path.exists(path)
Exists(fs, path) == path \in DOMAIN fs /\ fs[path].kind # "absent"

\* open(path, 'r') succeeds
CanRead(fs, path) == path \in DOMAIN fs /\ fs[path].kind = "file"

\* open(path, 'w') succeeds: the file is created or truncated
CanWrite(fs, path) == path \in DOMAIN fs /\ fs[path].kind \in {"absent", "file"}

\* ------------------------------------------- yaml.safe_load (PyYAML)
\* the loaded value: None, a dict with its top-level keys, a list with its
\* items, a str or an int.  Duplicate keys are accepted, comments dropped.
Value(ty, keys, items, val) == [type |-> ty, keys |-> keys, items |-> items, val |-> val]

IsIntWord(w) == w \in {"0", "1"}

ScalarValue(v) ==
    IF v = <<"null">> THEN Value("none", {}, {}, <<>>)
    ELSE IF Len(v) = 1 /\ IsIntWord(v[1]) THEN Value("int", {}, {}, v)
    ELSE Value("str", {}, {}, v)

SafeLoad(t) ==
    IF IsScalarDocument(t)
    THEN IF t[1].val = <<DateTok>> THEN Raised("ValueError")
         ELSE Ok(ScalarValue(t[1].val))
    ELSE IF \E i \in 1..Len(t) : t[i].kind \notin {"blank", "comment", "map", "seq"}
    THEN Raised("YAMLError")
    ELSE LET st == Compose(t, 1, ParseInit)
             roots == {i \in 1..Len(st.ents) : st.ents[i].parent = 0}
         IN  IF st.err THEN Raised("YAMLError")
             ELSE IF st.ents = <<>> THEN Ok(Value("none", {}, {}, <<>>))
             ELSE IF \E i \in 1..Len(st.ents) : InvalidDate(st.ents, i)
                  THEN Raised("ValueError")
             ELSE IF st.ents[1].kind = "map"
                  THEN Ok(Value("dict", {st.ents[i].key : i \in roots}, {}, <<>>))
                  ELSE Ok(Value("list", {}, {st.ents[i].val : i \in roots}, <<>>))

\* `not data`
Falsy(v) ==
    \/ v.type = "none"
    \/ v.type = "int" /\ v.val = <<"0">>

\* `name in data`: a key of a dict, an item of a list, a part of a str;
\* an int raises TypeError
Contains(v, name) ==
    CASE v.type = "dict" -> name \in v.keys
      [] v.type = "list" -> <<name>> \in v.items
      [] OTHER -> \E i \in 1..Len(v.val) : v.val[i] = name

\* ------------------------------------------- qualtrics_util.check_connection
qualtrics_token_name == "QUALTRICS_APITOKEN"

\* one `with open(...)` block: open, safe_load, test the key
\*   "present", "missing", "YAMLError" or "Exception" (any other exception)
ReadKey(fs, path, name) ==
    IF ~CanRead(fs, path) THEN "Exception"
    ELSE LET data == SafeLoad(fs[path].content)
         IN  CASE data.tag = "YAMLError" -> "YAMLError"
               [] data.tag # "ok" -> "Exception"
               [] Falsy(data.doc) -> "missing"
               [] data.doc.type = "int" -> "Exception"
               [] Contains(data.doc, name) -> "present"
               [] OTHER -> "missing"

Answer(ok, msg, opened) == [success |-> ok, message |-> msg, opened |-> opened]

\* (mutation) the config path is looked at only after the token file is read
check_connection_late_check(token_file_path, config_file_path, fs) ==
    IF token_file_path = "" \/ ~Exists(fs, token_file_path)
    THEN Answer(FALSE, "Qualtrics token file not found or path is not set.", <<>>)
    ELSE LET tok == ReadKey(fs, token_file_path, qualtrics_token_name)
         IN  CASE tok = "YAMLError" ->
                    Answer(FALSE, "Failed to parse a YAML file.", <<token_file_path>>)
               [] tok = "Exception" ->
                    Answer(FALSE, "An unexpected error occurred", <<token_file_path>>)
               [] tok = "missing" ->
                    Answer(FALSE, "QUALTRICS_APITOKEN key is missing in the token file.",
                           <<token_file_path>>)
               [] config_file_path = "" \/ ~Exists(fs, config_file_path) ->
                    Answer(FALSE, "Project config file not found or path is not set.",
                           <<token_file_path>>)
               [] OTHER ->
                    Answer(ReadKey(fs, config_file_path, "project_id") = "present",
                           "Successfully connected to Qualtrics and validated configuration.",
                           <<token_file_path, config_file_path>>)

\* (mutation) without the final `except Exception`: an exception other than
\* YAMLError leaves the function and no message is returned
check_connection_no_catch_all(token_file_path, config_file_path, fs) ==
    IF token_file_path = "" \/ ~Exists(fs, token_file_path)
    THEN Answer(FALSE, "Qualtrics token file not found or path is not set.", <<>>)
    ELSE IF config_file_path = "" \/ ~Exists(fs, config_file_path)
    THEN Answer(FALSE, "Project config file not found or path is not set.", <<>>)
    ELSE LET tok == ReadKey(fs, token_file_path, qualtrics_token_name)
             cfg == ReadKey(fs, config_file_path, "project_id")
             both == <<token_file_path, config_file_path>>
         IN  CASE tok = "YAMLError" ->
                    Answer(FALSE, "Failed to parse a YAML file.", <<token_file_path>>)
               [] tok = "Exception" -> Answer(FALSE, "", <<token_file_path>>)
               [] tok = "missing" ->
                    Answer(FALSE, "QUALTRICS_APITOKEN key is missing in the token file.",
                           <<token_file_path>>)
               [] cfg = "YAMLError" -> Answer(FALSE, "Failed to parse a YAML file.", both)
               [] cfg = "Exception" -> Answer(FALSE, "", both)
               [] cfg = "missing" ->
                    Answer(FALSE, "'project_id' key is missing in the config file.", both)
               [] OTHER ->
                    Answer(TRUE,
                           "Successfully connected to Qualtrics and validated configuration.",
                           both)

check_connection(token_file_path, config_file_path, fs) ==
    IF token_file_path = "" \/ ~Exists(fs, token_file_path)
    THEN Answer(FALSE, "Qualtrics token file not found or path is not set.", <<>>)
    ELSE IF config_file_path = "" \/ ~Exists(fs, config_file_path)
    THEN Answer(FALSE, "Project config file not found or path is not set.", <<>>)
    ELSE LET tok == ReadKey(fs, token_file_path, qualtrics_token_name)
             cfg == ReadKey(fs, config_file_path, "project_id")
             both == <<token_file_path, config_file_path>>
         IN  CASE tok = "YAMLError" ->
                    Answer(FALSE, "Failed to parse a YAML file.", <<token_file_path>>)
               [] tok = "Exception" ->
                    Answer(FALSE, "An unexpected error occurred", <<token_file_path>>)
               [] tok = "missing" ->
                    Answer(FALSE, "QUALTRICS_APITOKEN key is missing in the token file.",
                           <<token_file_path>>)
               [] cfg = "YAMLError" -> Answer(FALSE, "Failed to parse a YAML file.", both)
               [] cfg = "Exception" -> Answer(FALSE, "An unexpected error occurred", both)
               [] cfg = "missing" ->
                    Answer(FALSE, "'project_id' key is missing in the config file.", both)
               [] OTHER ->
                    Answer(TRUE,
                           "Successfully connected to Qualtrics and validated configuration.",
                           both)

\* ----------------------------------------------------------- program state
VARIABLES
    program,                   \* "edit_1", "edit_linenum" or "main1"
    text_edit,                 \* text_edit[e]: the buffer of editor e
    current_file_path,         \* current_file_path[e], "" for None
    shown,                     \* the editors whose window is on screen
    editor_windows,            \* LauncherWindow.editor_windows
    disk,                      \* the files
    token_file_path_edit,      \* the launcher's two path fields
    project_config_path_edit,
    edit_token_btn,            \* the Edit buttons are enabled
    edit_project_btn,
    settings,                  \* QSettings: the two persisted paths
    launcher_open,             \* the launcher window is on screen
    last,                      \* what the last operation did
    ops,                       \* the number of operations so far
    memo                       \* an earlier format request, kept for comparison

vars == <<program, text_edit, current_file_path, shown, editor_windows, disk,
          token_file_path_edit, project_config_path_edit, edit_token_btn,
          edit_project_btn, settings, launcher_open, last, ops, memo>>

editorVars == <<text_edit, current_file_path>>
launcherVars == <<editor_windows, token_file_path_edit, project_config_path_edit,
                  edit_token_btn, edit_project_btn, settings, launcher_open>>

Editors == 1..MaxWindows
Programs == {"edit_1", "edit_linenum", "main1"}

\* the files on disk at startup
TokenText == <<CommentLn(0, "c2"), MapLn(2, "QUALTRICS_APITOKEN", <<"1">>, "")>>
ConfigText == <<MapLn(0, "project_id", <<"1">>, "c1"), MapLn(0, "a", <<>>, ""),
                SeqLn(0, <<"1">>, 2)>>
\* what the user types into a buffer
TypedTexts ==
    { <<BlankLn(3)>>,
      <<MapLn(0, "a", <<>>, ""), MapLn(3, "c", <<"1">>, "")>>,
      <<BadLn>>,
      <<MapLn(0, "c", <<DateTok>>, "")>>,
      <<CommentLn(0, "c2")>> }

\* what the last operation did: its name, its editor (0: none), the buffer
\* it found, its outcome, the message box it showed and the files it opened
Did(op, e, before, outcome, notice) ==
    [op |-> op, editor |-> e, before |-> before, outcome |-> outcome,
     notice |-> notice, args |-> <<>>, success |-> FALSE, opened |-> <<>>]

\* what a call check_connection(token, config) returned
Checked(op, token, config, r) ==
    [op |-> op, editor |-> 0, before |-> <<>>, outcome |-> r.message,
     notice |-> IF r.success THEN "information" ELSE "warning",
     args |-> <<token, config>>, success |-> r.success, opened |-> r.opened]

NoMemo == [set |-> FALSE, editor |-> 0, path |-> "", text |-> <<>>,
           outcome |-> "", result |-> <<>>]

\* (mutation) both Edit buttons are enabled at startup, path or no path
load_settings_always_enabled(stored) ==
    /\ token_file_path_edit = stored.token
    /\ edit_token_btn = TRUE
    /\ project_config_path_edit = stored.project
    /\ edit_project_btn = TRUE

\* LauncherWindow.load_settings, after init_ui has disabled both Edit buttons
load_settings(stored) ==
    /\ token_file_path_edit = stored.token
    /\ edit_token_btn = (stored.token # "")
    /\ project_config_path_edit = stored.project
    /\ edit_project_btn = (stored.project # "")

InitCommon ==
    /\ disk = [p \in Paths |-> CASE p = "t.yaml" -> File(TokenText)
                                 [] p = "p.yaml" -> File(ConfigText)
                                 [] OTHER -> Absent]
    /\ last = Did("start", 0, <<>>, "", "none")
    /\ memo = NoMemo
    /\ ops = 0
    /\ current_file_path = [e \in Editors |-> ""]
    /\ editor_windows = <<>>

\* a standalone editor shows one empty window; main1 shows the launcher
Init ==
    /\ program \in Programs
    /\ InitCommon
    /\ text_edit = [e \in Editors |-> <<>>]
    /\ shown = IF program = "main1" THEN {} ELSE {1}
    /\ launcher_open = (program = "main1")
    /\ settings \in [token : {"", "t.yaml", "notes.yaml"}, project : {"", "p.yaml"}]
    /\ program # "main1" => settings = [token |-> "", project |-> ""]
    /\ IF program = "main1" THEN load_settings(settings)
       ELSE load_settings([token |-> "", project |-> ""])

\* ------------------------------------------------------------ editor actions
\* the user edits the buffer
TypeText(e, t) ==
    /\ e \in shown
    /\ text_edit' = [text_edit EXCEPT ![e] = t]
    /\ last' = Did("type", e, <<>>, "", "none")
    /\ UNCHANGED <<program, current_file_path, shown, disk, launcherVars, memo>>

new_file(e) ==
    /\ e \in shown
    /\ text_edit' = [text_edit EXCEPT ![e] = <<>>]
    /\ current_file_path' = [current_file_path EXCEPT ![e] = ""]
    /\ last' = Did("new_file", e, <<>>, "", "none")
    /\ UNCHANGED <<program, shown, disk, launcherVars, memo>>

\* the body of open_file once file_path is known ("": the dialog was cancelled)
OpenPath(e, file_path, op) ==
    IF file_path = "" THEN
        /\ last' = Did(op, e, <<>>, "Cancelled", "none")
        /\ UNCHANGED editorVars
    ELSE IF CanRead(disk, file_path) THEN
        /\ text_edit' = [text_edit EXCEPT ![e] = disk[file_path].content]
        /\ current_file_path' = [current_file_path EXCEPT ![e] = file_path]
        /\ last' = Did(op, e, <<>>, "Opened", "none")
    ELSE
        /\ last' = Did(op, e, <<>>, "IOFailure", "critical")
        /\ UNCHANGED editorVars

\* File > Open: the dialog returns an existing file or nothing
open_file(e, choice) ==
    /\ e \in shown
    /\ choice = "" \/ Exists(disk, choice)
    /\ OpenPath(e, choice, "open_file")
    /\ UNCHANGED <<program, shown, disk, launcherVars, memo>>

\* the try block of save_file: open(path, 'w') truncates the file, write may
\* then fail (io = "write_error")
WriteFile(e, path, io, op) ==
    IF ~CanWrite(disk, path) THEN
        /\ last' = Did(op, e, <<>>, "IOFailure", "critical")
        /\ UNCHANGED disk
    ELSE IF io = "write_error" THEN
        /\ disk' = [disk EXCEPT ![path] = File(<<>>)]
        /\ last' = Did(op, e, <<>>, "IOFailure", "critical")
    ELSE
        /\ disk' = [disk EXCEPT ![path] = File(text_edit[e])]
        /\ last' = Did(op, e, <<>>, "Saved", "none")

\* str.endswith(('.yaml', '.yml')), and the name with '.yaml' appended
HasYamlSuffix(path) == path \in {"t.yaml", "p.yaml", "notes.yaml"}
WithSuffix(path) == IF HasYamlSuffix(path) THEN path ELSE "notes.yaml"
SaveChoices == {"", "notes", "p.yaml"}

\* the body of save_file_as once the dialog has returned
SaveAsPath(e, choice, io, op) ==
    IF choice = "" THEN
        /\ last' = Did(op, e, <<>>, "Cancelled", "none")
        /\ UNCHANGED <<current_file_path, disk>>
    ELSE
        /\ current_file_path' = [current_file_path EXCEPT ![e] = WithSuffix(choice)]
        /\ WriteFile(e, WithSuffix(choice), io, op)

save_file(e, choice, io) ==
    /\ e \in shown
    /\ IF current_file_path[e] # ""
       THEN /\ choice = ""
            /\ WriteFile(e, current_file_path[e], io, "save_file")
            /\ UNCHANGED current_file_path
       ELSE SaveAsPath(e, choice, io, "save_file")
    /\ UNCHANGED <<program, text_edit, shown, launcherVars, memo>>

save_file_as(e, choice, io) ==
    /\ e \in shown
    /\ SaveAsPath(e, choice, io, "save_file_as")
    /\ UNCHANGED <<program, text_edit, shown, launcherVars, memo>>

\* (mutation) a successful format also saves the buffer to the current file
FormatRequestAndSave(e) ==
    LET r == format_yaml(program, text_edit[e])
        path == current_file_path[e]
    IN  /\ e \in shown
        /\ text_edit' = [text_edit EXCEPT ![e] = r.text]
        /\ last' = Did("format_yaml", e, text_edit[e], r.outcome, r.notice)
        /\ memo' = memo
        /\ disk' = IF r.outcome = "Formatted" /\ CanWrite(disk, path)
                   THEN [disk EXCEPT ![path] = File(r.text)] ELSE disk
        /\ UNCHANGED <<program, current_file_path, shown, launcherVars>>

\* (mutation) the output stream is shared by the requests and never emptied:
\* what an earlier request wrote precedes what this one writes
FormatRequestSharedStream(e) ==
    LET r == format_yaml(program, text_edit[e])
        out == IF r.outcome = "Formatted" THEN memo.result \o r.text ELSE r.text
        this == [set |-> TRUE, editor |-> e, path |-> current_file_path[e],
                 text |-> text_edit[e], outcome |-> r.outcome, result |-> out]
    IN  /\ e \in shown
        /\ text_edit' = [text_edit EXCEPT ![e] = out]
        /\ last' = Did("format_yaml", e, text_edit[e], r.outcome, r.notice)
        /\ memo' \in {memo, this}
        /\ UNCHANGED <<program, current_file_path, shown, disk, launcherVars>>

\* the Format button
FormatRequest(e) ==
    LET r == format_yaml(program, text_edit[e])
        this == [set |-> TRUE, editor |-> e, path |-> current_file_path[e],
                 text |-> text_edit[e], outcome |-> r.outcome, result |-> r.text]
    IN  /\ e \in shown
        /\ text_edit' = [text_edit EXCEPT ![e] = r.text]
        /\ last' = Did("format_yaml", e, text_edit[e], r.outcome, r.notice)
        /\ memo' \in {memo, this}
        /\ UNCHANGED <<program, current_file_path, shown, disk, launcherVars>>

\* the window is closed (File > Exit or the window's close button)
close_editor(e) ==
    /\ e \in shown
    /\ shown' = shown \ {e}
    /\ last' = Did("close", e, <<>>, "", "none")
    /\ UNCHANGED <<program, editorVars, disk, launcherVars, memo>>

\* ---------------------------------------------------------- launcher actions
\* LauncherWindow.save_settings
save_settings(token, project) == settings' = [token |-> token, project |-> project]

\* (mutation) the selected path is shown but not persisted
browse_token_file_unsaved(path) ==
    /\ program = "main1" /\ launcher_open
    /\ path = "" \/ Exists(disk, path)
    /\ IF path # ""
       THEN /\ token_file_path_edit' = path
            /\ edit_token_btn' = TRUE
            /\ UNCHANGED settings
       ELSE UNCHANGED <<token_file_path_edit, edit_token_btn, settings>>
    /\ last' = Did("browse_token_file", 0, <<>>, "", "none")
    /\ UNCHANGED <<program, editorVars, shown, disk, editor_windows,
                   project_config_path_edit, edit_project_btn, launcher_open, memo>>

\* Browse...: the dialog returns an existing file or nothing
browse_token_file(path) ==
    /\ program = "main1" /\ launcher_open
    /\ path = "" \/ Exists(disk, path)
    /\ IF path # ""
       THEN /\ token_file_path_edit' = path
            /\ edit_token_btn' = TRUE
            /\ save_settings(path, project_config_path_edit)
       ELSE UNCHANGED <<token_file_path_edit, edit_token_btn, settings>>
    /\ last' = Did("browse_token_file", 0, <<>>, "", "none")
    /\ UNCHANGED <<program, editorVars, shown, disk, editor_windows,
                   project_config_path_edit, edit_project_btn, launcher_open, memo>>

browse_project_file(path) ==
    /\ program = "main1" /\ launcher_open
    /\ path = "" \/ Exists(disk, path)
    /\ IF path # ""
       THEN /\ project_config_path_edit' = path
            /\ edit_project_btn' = TRUE
            /\ save_settings(token_file_path_edit, path)
       ELSE UNCHANGED <<project_config_path_edit, edit_project_btn, settings>>
    /\ last' = Did("browse_project_file", 0, <<>>, "", "none")
    /\ UNCHANGED <<program, editorVars, shown, disk, editor_windows,
                   token_file_path_edit, edit_token_btn, launcher_open, memo>>

\* EditorWindow(file_path=path) is built, opens the file, is appended to
\* editor_windows and shown
open_editor_for_path(path) ==
    IF path = "" THEN
        /\ last' = Did("open_editor_for_path", 0, <<>>, "NoFile", "warning")
        /\ UNCHANGED <<editorVars, shown, editor_windows>>
    ELSE
        LET e == Len(editor_windows) + 1
        IN  /\ e \in Editors
            /\ OpenPath(e, path, "open_editor_for_path")
            /\ editor_windows' = Append(editor_windows, e)
            /\ shown' = shown \cup {e}

edit_token_file ==
    /\ program = "main1" /\ launcher_open /\ edit_token_btn
    /\ open_editor_for_path(token_file_path_edit)
    /\ UNCHANGED <<program, disk, token_file_path_edit, project_config_path_edit,
                   edit_token_btn, edit_project_btn, settings, launcher_open, memo>>

edit_project_file ==
    /\ program = "main1" /\ launcher_open /\ edit_project_btn
    /\ open_editor_for_path(project_config_path_edit)
    /\ UNCHANGED <<program, disk, token_file_path_edit, project_config_path_edit,
                   edit_token_btn, edit_project_btn, settings, launcher_open, memo>>

run_check_connection ==
    LET r == check_connection(token_file_path_edit, project_config_path_edit, disk)
    IN  /\ program = "main1" /\ launcher_open
        /\ last' = Checked("run_check_connection", token_file_path_edit,
                           project_config_path_edit, r)
        /\ UNCHANGED <<program, editorVars, shown, disk, launcherVars, memo>>

\* LauncherWindow.closeEvent
closeEvent ==
    /\ program = "main1" /\ launcher_open
    /\ save_settings(token_file_path_edit, project_config_path_edit)
    /\ launcher_open' = FALSE
    /\ last' = Did("closeEvent", 0, <<>>, "", "none")
    /\ UNCHANGED <<program, editorVars, shown, disk, editor_windows,
                   token_file_path_edit, project_config_path_edit,
                   edit_token_btn, edit_project_btn, memo>>

\* ------------------------------------------------------------ specification
\* one more user operation in the session
Op(A) == ops < MaxOps /\ ops' = ops + 1 /\ A

Next ==
    \/ \E e \in Editors, t \in TypedTexts : Op(TypeText(e, t))
    \/ \E e \in Editors : Op(new_file(e))
    \/ \E e \in Editors, path \in Paths \cup {""} : Op(open_file(e, path))
    \/ \E e \in Editors, choice \in SaveChoices, io \in {"ok", "write_error"} :
          Op(save_file(e, choice, io))
    \/ \E e \in Editors, choice \in SaveChoices, io \in {"ok", "write_error"} :
          Op(save_file_as(e, choice, io))
    \/ \E e \in Editors : Op(FormatRequest(e))
    \/ \E e \in Editors : Op(close_editor(e))
    \/ \E path \in Paths \cup {""} : Op(browse_token_file(path))
    \/ \E path \in Paths \cup {""} : Op(browse_project_file(path))
    \/ Op(edit_token_file)
    \/ Op(edit_project_file)
    \/ Op(run_check_connection)
    \/ Op(closeEvent)

Spec == Init /\ [][Next]_vars

\* ------------------------------------------- format_yaml on every short text
\* one editor of each variant holds any text of at most MaxLen lines and the
\* Format button is pressed
InitFormat ==
    /\ program \in Programs
    /\ InitCommon
    /\ \E t \in Texts : text_edit = [e \in Editors |-> IF e = 1 THEN t ELSE <<>>]
    /\ shown = {1}
    /\ launcher_open = FALSE
    /\ settings = [token |-> "", project |-> ""]
    /\ load_settings(settings)

NextFormat == ops' = ops /\ FormatRequest(1)

SpecFormat == InitFormat /\ [][NextFormat]_vars

\* ------------------------------------- check_connection on every small disk
\* the texts of the two files
CheckTexts ==
    { TokenText, ConfigText, <<BadLn>>, <<CommentLn(0, "c2")>>,
      <<MapLn(0, "a", <<"1">>, "")>>,
      <<SeqLn(0, <<qualtrics_token_name>>, 2)>>,
      <<ScalarLn(<<"1">>)>> }
FileStates == {Absent, Directory, NoPermission} \cup {File(t) : t \in CheckTexts}
PathArguments == {"", "t.yaml", "p.yaml", "missing.yaml"}

InitCheck ==
    /\ program = "main1"
    /\ \E t, p \in FileStates :
          disk = [q \in Paths |-> CASE q = "t.yaml" -> t [] q = "p.yaml" -> p
                                    [] OTHER -> Absent]
    /\ last = Did("start", 0, <<>>, "", "none")
    /\ memo = NoMemo
    /\ ops = 0
    /\ current_file_path = [e \in Editors |-> ""]
    /\ text_edit = [e \in Editors |-> <<>>]
    /\ editor_windows = <<>>
    /\ shown = {}
    /\ launcher_open = TRUE
    /\ settings = [token |-> "", project |-> ""]
    /\ load_settings(settings)

CallCheckConnection(token, config) ==
    /\ last' = Checked("check_connection", token, config,
                       check_connection(token, config, disk))
    /\ UNCHANGED <<program, editorVars, shown, disk, launcherVars, ops, memo>>

NextCheck == \E token, config \in PathArguments : CallCheckConnection(token, config)

SpecCheck == InitCheck /\ [][NextCheck]_vars

\* ================================================================== claims
FormatDone == last.op = "format_yaml"
Before == last.before
After == text_edit[last.editor]
Formatted == FormatDone /\ last.outcome = "Formatted"

\* the parse of the buffer the request found fails, whatever is raised
ParseFails(t) == ~StripIsEmpty(t) /\ Load(t).tag # "ok"

\* C1: a format request whose parse fails leaves the buffer as it was and
\* reports the failure in an error dialog.
C1_FailedParseKeepsBufferAndReports ==
    (FormatDone /\ ParseFails(Before)) => (After = Before /\ last.notice = "critical")

\* C2: every format request ends in exactly one of EmptyInput, Formatted and
\* ParseFailed; no exception leaves format_yaml.
C2_NoFaultEscapes ==
    FormatDone => last.outcome \in {"EmptyInput", "Formatted", "ParseFailed"}

\* C3: in every variant a format request on an empty or whitespace-only
\* buffer ends as EmptyInput, leaves the buffer alone, shows no error dialog
\* and shows an informational notice.
C3_EmptyInputIsAnnounced ==
    (FormatDone /\ StripIsEmpty(Before)) =>
        /\ last.outcome = "EmptyInput"
        /\ After = Before
        /\ last.notice = "information"

CommentLines(t) == {i \in 1..Len(t) : t[i].eol # ""}

\* C5: every comment of a buffer that formats successfully is in the
\* formatted buffer, on a line of the same entry.
C5_CommentsSurvive ==
    Formatted =>
        \A i \in CommentLines(Before) : \E j \in CommentLines(After) :
            /\ After[j].eol = Before[i].eol
            /\ After[j].kind = Before[i].kind
            /\ After[j].key = Before[i].key

\* the keys of a text in the order of their lines, and the tree of a
\* loaded document: kind, parent, key and value of every entry
IsKeyLine(l) == l.kind = "map"
KeysInOrder(t) == [i \in 1..Len(SelectSeq(t, IsKeyLine)) |-> SelectSeq(t, IsKeyLine)[i].key]
Tree(doc) ==
    [i \in 1..Len(doc.ents) |->
        [kind |-> doc.ents[i].kind, parent |-> doc.ents[i].parent,
         key |-> doc.ents[i].key, val |-> doc.ents[i].val]]

\* C6: the formatted buffer lists the keys in the order of the input, and
\* reads back as the same keys, values and nesting.
C6_KeyOrderAndContentPreserved ==
    Formatted =>
        /\ KeysInOrder(After) = KeysInOrder(Before)
        /\ Load(After).tag = "ok"
        /\ Load(After).doc.root = Load(Before).doc.root
        /\ Tree(Load(After).doc) = Tree(Load(Before).doc)

\* three keys of one mapping, or a nested mapping, went through a request
\* that moved a line
C6_Witness ==
    /\ Formatted
    /\ Len(KeysInOrder(Before)) = 3
    /\ \E i \in 1..Len(Load(Before).doc.ents) : Load(Before).doc.ents[i].parent # 0
    /\ After # Before

\* the lines of a text that hold an entry
IsEntryLine(l) == l.kind \in {"map", "seq"}
EntryLines(t) == SelectSeq(t, IsEntryLine)

\* C7: every variant serializes with mapping indent 2, sequence indent 4 and
\* offset 2: a nested key stands 2 columns right of the key holding it, the
\* dash of a sequence item 2 columns and its content 4 columns right of the
\* key holding the sequence.
C7_FixedIndentation ==
    (Formatted /\ Load(Before).doc.root = "block") =>
        LET ents == Load(Before).doc.ents
            out == EntryLines(After)
        IN  /\ Len(out) = Len(ents)
            /\ \A i \in 1..Len(ents) :
                  /\ ents[i].kind = "map" /\ ents[i].parent = 0 => out[i].ind = 0
                  /\ ents[i].kind = "map" /\ ents[i].parent # 0 =>
                        out[i].ind = out[ents[i].parent].ind + 2
                  /\ ents[i].kind = "seq" /\ ents[i].parent # 0 =>
                        /\ out[i].ind = out[ents[i].parent].ind + 2
                        /\ out[i].ind + out[i].gap = out[ents[i].parent].ind + 4

\* a sequence under a nested key was laid out anew
C7_Witness ==
    /\ Formatted
    /\ Load(Before).doc.root = "block"
    /\ \E i \in 1..Len(Load(Before).doc.ents) :
          LET ents == Load(Before).doc.ents
          IN  /\ ents[i].kind = "seq"
              /\ ents[i].parent # 0
              /\ ents[ents[i].parent].parent # 0
    /\ After # Before

\* C8: a format request changes nothing but the text buffer: the current
\* file paths, the files on disk, the launcher's path fields and buttons, the
\* persisted settings and the editor-window list stay as they are.
C8_FormatTouchesOnlyTheBuffer ==
    [][(ops' # ops /\ last'.op = "format_yaml") =>
          /\ current_file_path' = current_file_path
          /\ disk' = disk
          /\ token_file_path_edit' = token_file_path_edit
          /\ project_config_path_edit' = project_config_path_edit
          /\ settings' = settings
          /\ editor_windows' = editor_windows
          /\ shown' = shown
          /\ \A e \in Editors \ {last'.editor} : text_edit'[e] = text_edit[e]]_vars

\* a request has run in a launcher window that holds a file, with settings
\* persisted
C8_Witness ==
    /\ FormatDone
    /\ program = "main1"
    /\ current_file_path[last.editor] # ""
    /\ settings.token # ""
    /\ After # Before

CheckDone == last.op = "check_connection"
NotFound(path) == path = "" \/ ~Exists(disk, path)

C10_NotFound ==
    (CheckDone /\ (NotFound(last.args[1]) \/ NotFound(last.args[2]))) =>
        /\ ~last.success
        /\ last.opened = <<>>
        /\ last.outcome = IF NotFound(last.args[1])
                          THEN "Qualtrics token file not found or path is not set."
                          ELSE "Project config file not found or path is not set."

\* both are missing and the token file is the one reported
C10_Witness ==
    /\ CheckDone
    /\ NotFound(last.args[1]) /\ NotFound(last.args[2])
    /\ last.args[1] # "" /\ last.args[2] # ""
    /\ last.outcome = "Qualtrics token file not found or path is not set."

\* the two files of the last call, and what yaml.safe_load makes of them
TokenFile == disk[last.args[1]]
ConfigFile == disk[last.args[2]]
BothAreFiles ==
    /\ CheckDone
    /\ CanRead(disk, last.args[1]) /\ CanRead(disk, last.args[2])
NotValidYaml(f) == SafeLoad(f.content).tag = "YAMLError"
ParsesAsYaml(f) == SafeLoad(f.content).tag = "ok"

\* C11: when both paths name existing files and the token file or the config
\* file is not valid YAML, check_connection fails with the parse-error
\* message, whichever file is the invalid one and whatever the other holds.
C11_ParseErrorForEitherFile ==
    (BothAreFiles /\ (NotValidYaml(TokenFile) \/ NotValidYaml(ConfigFile))) =>
        /\ ~last.success
        /\ last.outcome = "Failed to parse a YAML file."

\* a mapping that has the key at its top level
HasTopLevelKey(f, name) ==
    LET data == SafeLoad(f.content)
    IN  data.tag = "ok" /\ data.doc.type = "dict" /\ name \in data.doc.keys

MissingKeyMessages ==
    { "QUALTRICS_APITOKEN key is missing in the token file.",
      "'project_id' key is missing in the config file." }

\* C12: when both files exist and parse, check_connection fails with a
\* missing-key message if the token document has no top-level key
\* QUALTRICS_APITOKEN or the config document has no top-level key project_id,
\* for a mapping, a sequence, a scalar and an empty document alike; it returns
\* true with the success message only when both keys are top-level keys.
C12_MissingKeyUnlessBothKeysPresent ==
    (BothAreFiles /\ ParsesAsYaml(TokenFile) /\ ParsesAsYaml(ConfigFile)) =>
        LET both == /\ HasTopLevelKey(TokenFile, qualtrics_token_name)
                    /\ HasTopLevelKey(ConfigFile, "project_id")
        IN  /\ ~both => (~last.success /\ last.outcome \in MissingKeyMessages)
            /\ last.success => both
            /\ both => /\ last.success
                       /\ last.outcome =
                            "Successfully connected to Qualtrics and validated configuration."

\* a step that is a Save or a Save As, and the file it writes to
SaveStep == ops' # ops /\ last'.op \in {"save_file", "save_file_as"}
SaveTarget == current_file_path'[last'.editor]

\* C13: a save that fails with an I/O error leaves the target file as it
\* was, complete or absent, never empty or cut short; a save that succeeds
\* leaves the file holding exactly the buffer's text.
C13_NoPartialWrite ==
    [][ SaveStep =>
          /\ last'.outcome = "IOFailure" => disk'[SaveTarget] = disk[SaveTarget]
          /\ last'.outcome = "Saved" =>
                disk'[SaveTarget] = File(text_edit[last'.editor]) ]_vars

\* a step that is an Open, a Save or a Save As and ends in an I/O error
FailedFileStep ==
    /\ ops' # ops
    /\ last'.op \in {"open_file", "open_editor_for_path", "save_file", "save_file_as"}
    /\ last'.outcome = "IOFailure"

\* C14: an Open, Save or Save As that fails with an I/O error leaves the
\* editor's buffer and its current_file_path (hence its title and the target
\* of a later Save) as they were.
C14_FailedOperationKeepsEditorState ==
    [][ FailedFileStep =>
          /\ text_edit'[last'.editor] = text_edit[last'.editor]
          /\ current_file_path'[last'.editor] = current_file_path[last'.editor] ]_vars

\* the editors the registry holds
Registered == {editor_windows[i] : i \in 1..Len(editor_windows)}

\* C15: the launcher's editor_windows holds exactly the editor windows that
\* are open: opening through an Edit button adds one, closing the window
\* removes it, an empty path adds nothing; its size is the number of open
\* editors.
C15_RegistryHoldsOpenEditors ==
    program = "main1" =>
        /\ Registered = shown
        /\ Len(editor_windows) = Cardinality(shown)

\* C16: after startup and after every launcher operation the persisted token
\* path and project-config path are the two paths the launcher shows, so a
\* restart shows the paths that were shown when the launcher was closed.
C16_PersistedPathsAreShownPaths ==
    program = "main1" =>
        /\ settings.token = token_file_path_edit
        /\ settings.project = project_config_path_edit

\* the launcher was closed after a browse had replaced the token path
C16_Witness ==
    /\ program = "main1"
    /\ last.op = "closeEvent" /\ ~launcher_open
    /\ token_file_path_edit = "p.yaml"
    /\ settings.token = "p.yaml"

\* C17: each Edit button is enabled exactly when its path field is not
\* empty, so open_editor_for_path is never reached with an empty path.
C17_EditEnabledIffPathSet ==
    /\ edit_token_btn <=> token_file_path_edit # ""
    /\ edit_project_btn <=> project_config_path_edit # ""
    /\ last.op = "open_editor_for_path" => last.outcome # "NoFile"

\* an editor was opened on a browsed token path while the project field is
\* empty and its button disabled
C17_Witness ==
    /\ program = "main1"
    /\ last.op = "open_editor_for_path" /\ last.outcome = "Opened"
    /\ token_file_path_edit = "p.yaml" /\ edit_token_btn
    /\ project_config_path_edit = "" /\ ~edit_project_btn

\* the messages check_connection can return
Messages ==
    MissingKeyMessages \cup
    { "Qualtrics token file not found or path is not set.",
      "Project config file not found or path is not set.",
      "Failed to parse a YAML file.",
      "An unexpected error occurred",
      "Successfully connected to Qualtrics and validated configuration." }

\* the membership test of the code finds the name in the file's document
KeyFound(f, name) ==
    LET data == SafeLoad(f.content)
    IN  /\ data.tag = "ok" /\ ~Falsy(data.doc) /\ data.doc.type # "int"
        /\ Contains(data.doc, name)

\* C18: for every pair of path arguments and every state of the two files
\* (missing, directory, unreadable, any document) check_connection returns a
\* boolean and a non-empty message and raises nothing; it returns true only
\* after it has read both files and found both keys, and every failure is
\* shown as a warning.
C18_CheckConnectionIsTotal ==
    CheckDone =>
        /\ last.success \in BOOLEAN
        /\ last.outcome # "" /\ last.outcome \in Messages
        /\ last.success =>
              /\ last.outcome =
                    "Successfully connected to Qualtrics and validated configuration."
              /\ last.opened = last.args
              /\ BothAreFiles
              /\ KeyFound(TokenFile, qualtrics_token_name)
              /\ KeyFound(ConfigFile, "project_id")
        /\ ~last.success =>
              /\ last.notice = "warning"
              /\ last.outcome #
                    "Successfully connected to Qualtrics and validated configuration."

\* the token file cannot be opened and the failure comes back as a message
C18_Witness ==
    /\ CheckDone
    /\ Exists(disk, last.args[1]) /\ ~CanRead(disk, last.args[1])
    /\ Exists(disk, last.args[2])
    /\ ~last.success
    /\ last.outcome = "An unexpected error occurred"

====
